---- MODULE Spec2Model ----
(***************************************************************************)
(* FuturesUnorderedSeries (helix-term/src/stream.rs): a queue of futures   *)
(* built on futures_util's FuturesUnordered.  Every enrolment (push or a   *)
(* non-empty push_series) gets a slot index; the head of the enrolment is  *)
(* wrapped in a SeriesWrapper and put in in_progress_queue, the rest of a  *)
(* series waits, reversed, in series_queue under the slot index.           *)
(* poll_next takes the next completion of in_progress_queue, promotes the  *)
(* next element of the slot's series and returns the output.               *)
(*                                                                         *)
(* FuturesUnordered is the dependency the queue delegates to.  Its part of *)
(* the state is in_progress_queue (the futures it holds), ready_to_run     *)
(* (its queue of woken tasks: a pushed task is enqueued, a task is         *)
(* enqueued again when its waker fires), and terminated (its is_terminated *)
(* flag: set when its poll_next returns None, cleared by push).            *)
(* An inner future is opaque; it is named by the enrolment that brought it *)
(* and its position in that enrolment, and its output carries that name.   *)
(***************************************************************************)
EXTENDS Integers, Sequences, FiniteSets, TLC

\* Bounds of the model.
MaxEnrol == 3       \* enrolments that create a slot
MaxSeriesLen == 3   \* longest Vec handed to push_series
MaxFutures == 5     \* inner futures enrolled in all

VARIABLES
    in_progress_queue,  \* set of SeriesWrapper [data, index] held by FuturesUnordered
    ready_to_run,       \* FuturesUnordered's queue of tasks to poll, in wake order
    done,               \* inner futures whose poll returns Ready
    terminated,         \* FuturesUnordered's is_terminated flag
    series_queue,       \* slot index -> Vec of the remaining futures, reversed
    next_index,         \* the counter
    yielded,            \* outputs returned to the consumer so far, in order
    enrolments,         \* per slot-creating enrolment: index assigned, number of futures
    last,               \* the last call and what it returned
    ended               \* poll_next has returned end-of-stream at least once

vars == <<in_progress_queue, ready_to_run, done, terminated, series_queue,
          next_index, yielded, enrolments, last, ended>>

----------------------------------------------------------------------------
\* Vec helpers

\* Vec::reverse
reverse_identity(s) == s

reverse(s) == [i \in 1..Len(s) |-> s[Len(s) + 1 - i]]

\* Taking the first element instead of the last
pop_front(v) ==
    IF Len(v) = 0
    THEN [some |-> FALSE, rest |-> v]
    ELSE [some |-> TRUE, value |-> v[1], rest |-> SubSeq(v, 2, Len(v))]

\* Vec::pop: the last element (or none) and the remaining vector
pop(v) ==
    IF Len(v) = 0
    THEN [some |-> FALSE, rest |-> v]
    ELSE [some |-> TRUE, value |-> v[Len(v)], rest |-> SubSeq(v, 1, Len(v) - 1)]

RECURSIVE SumLens(_, _)
SumLens(f, keys) ==
    IF keys = {} THEN 0
    ELSE LET k == CHOOSE x \in keys : TRUE
         IN Len(f[k]) + SumLens(f, keys \ {k})

RECURSIVE SumK(_)
SumK(s) == IF Len(s) = 0 THEN 0 ELSE s[Len(s)].k + SumK(SubSeq(s, 1, Len(s) - 1))

\* HashMap::insert / HashMap::remove
insert(m, key, v) == [x \in (DOMAIN m) \cup {key} |-> IF x = key THEN v ELSE m[x]]

remove(m, key) == [x \in (DOMAIN m) \ {key} |-> m[x]]

SeriesWrapper(d, i) == [data |-> d, index |-> i]

InSeq(s, x) == \E i \in 1..Len(s) : s[i] = x

----------------------------------------------------------------------------
\* Observers

len_count_keys == Cardinality(in_progress_queue) + Cardinality(DOMAIN series_queue)

len == Cardinality(in_progress_queue) + SumLens(series_queue, DOMAIN series_queue)

is_empty == in_progress_queue = {} /\ DOMAIN series_queue = {}

is_terminated_or == terminated \/ DOMAIN series_queue = {}

is_terminated_when_empty == in_progress_queue = {} /\ DOMAIN series_queue = {}

is_terminated_series_only == DOMAIN series_queue = {}

is_terminated == terminated /\ DOMAIN series_queue = {}

----------------------------------------------------------------------------
Init ==
    /\ in_progress_queue = {}
    /\ ready_to_run = <<>>
    /\ done = {}
    /\ terminated = FALSE
    /\ series_queue = <<>>
    /\ next_index = 0
    /\ yielded = <<>>
    /\ enrolments = <<>>
    /\ last = [op |-> "new", k |-> 0, ret |-> "-"]
    /\ ended = FALSE

\* FuturesUnordered::push: link the task, enqueue it to be polled, clear the flag
fu_push(ipq, rq, wrapped) ==
    /\ in_progress_queue' = ipq \cup {wrapped}
    /\ ready_to_run' = Append(rq, wrapped)
    /\ terminated' = FALSE

\* The futures a caller hands over in its next enrolment of k futures.
NewFutures(k) == [p \in 1..k |-> [enr |-> Len(enrolments) + 1, pos |-> p]]

\* push that forgets to advance the counter
push_reuses_index(future) ==
    LET wrapped == SeriesWrapper(future, next_index) IN
    /\ next_index' = next_index
    /\ fu_push(in_progress_queue, ready_to_run, wrapped)
    /\ enrolments' = Append(enrolments, [index |-> wrapped.index, k |-> 1])
    /\ UNCHANGED <<series_queue, yielded>>

push(future) ==
    LET wrapped == SeriesWrapper(future, next_index) IN
    /\ next_index' = next_index + 1
    /\ fu_push(in_progress_queue, ready_to_run, wrapped)
    /\ enrolments' = Append(enrolments, [index |-> wrapped.index, k |-> 1])
    /\ UNCHANGED <<series_queue, yielded>>

Push ==
    /\ Len(enrolments) < MaxEnrol
    /\ SumK(enrolments) + 1 <= MaxFutures
    /\ push(NewFutures(1)[1])
    /\ last' = [op |-> "push", k |-> 1, ret |-> "-"]
    /\ UNCHANGED <<done, ended>>

\* push_series that advances the counter whatever the input
push_series_always_counts(futures0) ==
    LET futures == reverse(futures0)
        p == pop(futures)
    IN  /\ next_index' = next_index + 1
        /\ IF p.some
           THEN /\ series_queue' = IF Len(p.rest) # 0
                                   THEN insert(series_queue, next_index, p.rest)
                                   ELSE series_queue
                /\ fu_push(in_progress_queue, ready_to_run, SeriesWrapper(p.value, next_index))
                /\ enrolments' = Append(enrolments,
                                        [index |-> next_index, k |-> Len(futures0)])
           ELSE UNCHANGED <<in_progress_queue, ready_to_run, terminated,
                            series_queue, enrolments>>
        /\ UNCHANGED yielded

\* push_series that stores the tail even when it is empty
push_series_always_inserts(futures0) ==
    LET futures == reverse(futures0)
        p == pop(futures)
    IN  /\ IF p.some
           THEN LET wrapped == SeriesWrapper(p.value, next_index) IN
                /\ series_queue' = insert(series_queue, next_index, p.rest)
                /\ next_index' = next_index + 1
                /\ fu_push(in_progress_queue, ready_to_run, wrapped)
                /\ enrolments' = Append(enrolments,
                                        [index |-> wrapped.index, k |-> Len(futures0)])
           ELSE UNCHANGED <<in_progress_queue, ready_to_run, terminated,
                            series_queue, next_index, enrolments>>
        /\ UNCHANGED yielded

\* push_series that files the tail under the counter's value after the increment
push_series_wrong_key(futures0) ==
    LET futures == reverse(futures0)
        p == pop(futures)
    IN  /\ IF p.some
           THEN LET wrapped == SeriesWrapper(p.value, next_index) IN
                /\ next_index' = next_index + 1
                /\ series_queue' = IF Len(p.rest) # 0
                                   THEN insert(series_queue, next_index + 1, p.rest)
                                   ELSE series_queue
                /\ fu_push(in_progress_queue, ready_to_run, wrapped)
                /\ enrolments' = Append(enrolments,
                                        [index |-> wrapped.index, k |-> Len(futures0)])
           ELSE UNCHANGED <<in_progress_queue, ready_to_run, terminated,
                            series_queue, next_index, enrolments>>
        /\ UNCHANGED yielded

push_series(futures0) ==
    LET futures == reverse(futures0)
        p == pop(futures)
    IN  /\ IF p.some
           THEN LET wrapped == SeriesWrapper(p.value, next_index) IN
                /\ series_queue' = IF Len(p.rest) # 0
                                   THEN insert(series_queue, next_index, p.rest)
                                   ELSE series_queue
                /\ next_index' = next_index + 1
                /\ fu_push(in_progress_queue, ready_to_run, wrapped)
                /\ enrolments' = Append(enrolments,
                                        [index |-> wrapped.index, k |-> Len(futures0)])
           ELSE UNCHANGED <<in_progress_queue, ready_to_run, terminated,
                            series_queue, next_index, enrolments>>
        /\ UNCHANGED yielded

PushSeries ==
    \E k \in 0..MaxSeriesLen :
        /\ k > 0 => Len(enrolments) < MaxEnrol
        /\ SumK(enrolments) + k <= MaxFutures
        /\ push_series(NewFutures(k))
        /\ last' = [op |-> "push_series", k |-> k, ret |-> "-"]
        /\ UNCHANGED <<done, ended>>

\* An inner future of the active set becomes ready; its waker enqueues the
\* task unless the task is already queued.
Complete ==
    \E t \in in_progress_queue :
        /\ t.data \notin done
        /\ done' = done \cup {t.data}
        /\ ready_to_run' = IF InSeq(ready_to_run, t) THEN ready_to_run
                           ELSE Append(ready_to_run, t)
        /\ last' = [op |-> "complete", k |-> 0, ret |-> "-"]
        /\ UNCHANGED <<in_progress_queue, terminated, series_queue, next_index,
                       yielded, enrolments, ended>>

\* The earliest slot's task, and only once its future is ready
Dequeue_in_slot_order ==
    LET lo == {i \in 1..Len(ready_to_run) :
                  \A t \in in_progress_queue : ready_to_run[i].index <= t.index}
    IN  IF \E i \in lo : ready_to_run[i].data \in done
        THEN CHOOSE i \in lo : ready_to_run[i].data \in done
        ELSE 0

\* The most recently woken ready task first
Dequeue_newest ==
    LET rdy == {i \in 1..Len(ready_to_run) : ready_to_run[i].data \in done}
    IN  IF rdy = {} THEN 0 ELSE CHOOSE i \in rdy : \A j \in rdy : i >= j

\* in_progress_queue.poll_next_unpin: tasks are dequeued and polled in wake
\* order; the position of the first one whose future is ready, 0 if none is.
Dequeue ==
    LET rdy == {i \in 1..Len(ready_to_run) : ready_to_run[i].data \in done}
    IN  IF rdy = {} THEN 0 ELSE CHOOSE i \in rdy : \A j \in rdy : i <= j

\* The wrapper of a promoted series element
promoted_stale(next, output) == SeriesWrapper(output.data, output.index)

promoted_fresh_index(next, output) == SeriesWrapper(next, next_index)

promoted(next, output) == SeriesWrapper(next, output.index)

\* The series table after an element was popped from the entry of idx
after_pop_keep_entry(sq, idx, rest) == [sq EXCEPT ![idx] = rest]

after_pop(sq, idx, rest) ==
    IF Len(rest) = 0 THEN remove(sq, idx) ELSE [sq EXCEPT ![idx] = rest]

\* poll_next that takes a promotion for a new slot and advances the counter
poll_next_counts_promotion ==
    LET pos == Dequeue IN
    IF pos = 0
    THEN /\ ready_to_run' = <<>>
         /\ IF in_progress_queue = {}
            THEN /\ terminated' = TRUE
                 /\ last' = [op |-> "poll_next", k |-> 0, ret |-> "None"]
                 /\ ended' = TRUE
            ELSE /\ terminated' = terminated
                 /\ last' = [op |-> "poll_next", k |-> 0, ret |-> "Pending"]
                 /\ ended' = ended
         /\ UNCHANGED <<in_progress_queue, done, series_queue, next_index,
                        yielded, enrolments>>
    ELSE LET output == ready_to_run[pos]
             rq == SubSeq(ready_to_run, pos + 1, Len(ready_to_run))
             ipq == in_progress_queue \ {output}
         IN  /\ IF output.index \in DOMAIN series_queue
                THEN LET p == pop(series_queue[output.index]) IN
                     /\ IF p.some
                        THEN /\ fu_push(ipq, rq, promoted(p.value, output))
                             /\ next_index' = next_index + 1
                        ELSE /\ in_progress_queue' = ipq
                             /\ ready_to_run' = rq
                             /\ terminated' = terminated
                             /\ next_index' = next_index
                     /\ series_queue' = after_pop(series_queue, output.index, p.rest)
                ELSE /\ in_progress_queue' = ipq
                     /\ ready_to_run' = rq
                     /\ terminated' = terminated
                     /\ series_queue' = series_queue
                     /\ next_index' = next_index
             /\ done' = done \ {output.data}
             /\ yielded' = Append(yielded, output.data)
             /\ last' = [op |-> "poll_next", k |-> 0, ret |-> "Some"]
             /\ UNCHANGED <<enrolments, ended>>

poll_next ==
    LET pos == Dequeue IN
    IF pos = 0
    THEN /\ ready_to_run' = <<>>
         /\ IF in_progress_queue = {}
            THEN /\ terminated' = TRUE
                 /\ last' = [op |-> "poll_next", k |-> 0, ret |-> "None"]
                 /\ ended' = TRUE
            ELSE /\ terminated' = terminated
                 /\ last' = [op |-> "poll_next", k |-> 0, ret |-> "Pending"]
                 /\ ended' = ended
         /\ UNCHANGED <<in_progress_queue, done, series_queue, next_index,
                        yielded, enrolments>>
    ELSE LET output == ready_to_run[pos]
             rq == SubSeq(ready_to_run, pos + 1, Len(ready_to_run))
             ipq == in_progress_queue \ {output}
         IN  /\ IF output.index \in DOMAIN series_queue
                THEN LET p == pop(series_queue[output.index]) IN
                     /\ IF p.some
                        THEN fu_push(ipq, rq, promoted(p.value, output))
                        ELSE /\ in_progress_queue' = ipq
                             /\ ready_to_run' = rq
                             /\ terminated' = terminated
                     /\ series_queue' = after_pop(series_queue, output.index, p.rest)
                ELSE /\ in_progress_queue' = ipq
                     /\ ready_to_run' = rq
                     /\ terminated' = terminated
                     /\ series_queue' = series_queue
             /\ done' = done \ {output.data}
             /\ yielded' = Append(yielded, output.data)
             /\ last' = [op |-> "poll_next", k |-> 0, ret |-> "Some"]
             /\ UNCHANGED <<next_index, enrolments, ended>>

PollNext == poll_next

Next == Push \/ PushSeries \/ Complete \/ PollNext

Spec == Init /\ [][Next]_vars

\* The specification of a driven queue: every future in the active set
\* eventually completes and the consumer keeps calling poll_next.
SpecLive == Init /\ [][Next]_vars /\ WF_vars(Complete) /\ WF_vars(PollNext)

\* The specification of immediately ready pushes: every future enrolled with
\* push is ready at its first poll (such as future::ready(x)); a series is
\* enrolled empty or with two or more futures, which become ready by Complete.
PushReady ==
    /\ Len(enrolments) < MaxEnrol
    /\ SumK(enrolments) + 1 <= MaxFutures
    /\ push(NewFutures(1)[1])
    /\ done' = done \cup {NewFutures(1)[1]}
    /\ last' = [op |-> "push", k |-> 1, ret |-> "-"]
    /\ UNCHANGED ended

PushSeriesMulti ==
    \E k \in {0} \cup (2..MaxSeriesLen) :
        /\ k > 0 => Len(enrolments) < MaxEnrol
        /\ SumK(enrolments) + k <= MaxFutures
        /\ push_series(NewFutures(k))
        /\ last' = [op |-> "push_series", k |-> k, ret |-> "-"]
        /\ UNCHANGED <<done, ended>>

NextReady == PushReady \/ PushSeriesMulti \/ Complete \/ PollNext

SpecReady == Init /\ [][NextReady]_vars

----------------------------------------------------------------------------
\* Properties

IsPoll(l) == l.op = "poll_next"
Yields(l) == l.op = "poll_next" /\ l.ret = "Some"
Enrols(l) == l.op \in {"push", "push_series"} /\ l.k >= 1

\* C1: results reach the consumer in enrolment order: no result of a later
\* enrolment is yielded before a result of an earlier enrolment.
C1_EnrolmentOrder ==
    \A i, j \in 1..Len(yielded) : i < j => yielded[i].enr <= yielded[j].enr

\* C2: the results yielded from one series are its elements in order: the
\* n-th result of an enrolment to be yielded is its n-th element.
C2_SeriesOrder ==
    \A i \in 1..Len(yielded) :
        yielded[i].pos =
            1 + Cardinality({j \in 1..(i - 1) : yielded[j].enr = yielded[i].enr})

C2_Witness ==
    \E i, j, k \in 1..Len(yielded) :
        /\ i < j /\ j < k
        /\ yielded[i].enr = yielded[k].enr /\ yielded[j].enr # yielded[i].enr
        /\ yielded[k].pos = 3

C4_LenAccounting ==
    /\ [](len = SumK(enrolments) - Len(yielded))
    /\ [][/\ last'.op = "push" => len' = len + 1
          /\ last'.op = "push_series" => len' = len + last'.k
          /\ Yields(last') => len' = len - 1
          /\ (IsPoll(last') /\ ~Yields(last')) => len' = len
         ]_vars

C4_Witness ==
    /\ Yields(last)
    /\ \E k \in DOMAIN series_queue :
          \E t \in in_progress_queue : t.index = k /\ t.data.pos = 2

\* C5: is_empty() holds exactly when len() is 0.
C5_EmptyIffLenZero == is_empty <=> (len = 0)

C5_Witness ==
    /\ is_empty
    /\ \E i \in 1..Len(yielded) : yielded[i].pos >= 2

\* C6: every key of the series table has exactly one wrapper with that index
\* in the active set.
C6_KeyHasOneActive ==
    \A k \in DOMAIN series_queue :
        Cardinality({t \in in_progress_queue : t.index = k}) = 1

C6_Witness ==
    \E k \in DOMAIN series_queue :
        \E t \in in_progress_queue : t.index = k /\ t.data.pos >= 2

\* C7: the i-th enrolment that creates a slot gets index i-1, the counter is
\* the number of slots created and never decreases, and no two enrolments
\* share an index.
C7_IndicesIncrease ==
    /\ [](/\ \A i \in 1..Len(enrolments) : enrolments[i].index = i - 1
          /\ \A i, j \in 1..Len(enrolments) :
                i # j => enrolments[i].index # enrolments[j].index
          /\ next_index = Len(enrolments))
    /\ [][next_index' >= next_index]_vars

C7_Witness ==
    /\ Len(enrolments) >= 3
    /\ last.op = "push"
    /\ Len(yielded) >= 1
    /\ \E i \in 1..Len(enrolments) : enrolments[i].k >= 2

\* C8: push_series of an empty Vec changes neither the counter, the active
\* set, the series table nor len, and a push that follows it gets the index
\* that was free before it.
C8_EmptySeriesNoOp ==
    [][/\ (last'.op = "push_series" /\ last'.k = 0) =>
             /\ UNCHANGED <<next_index, in_progress_queue, ready_to_run,
                            terminated, series_queue, done>>
             /\ len' = len
       /\ (last.op = "push_series" /\ last.k = 0 /\ last'.op = "push") =>
             /\ enrolments'[Len(enrolments')].index = Len(enrolments)
             /\ enrolments'[Len(enrolments')].index = next_index
      ]_vars

C8_Witness ==
    /\ last.op = "push_series" /\ last.k = 0
    /\ in_progress_queue # {}
    /\ DOMAIN series_queue # {}

\* C9: once is_terminated() holds, it keeps holding and every poll_next
\* returns end-of-stream, until a push or a non-empty push_series.
C9_TerminatedStaysEnded ==
    [][is_terminated =>
         /\ IsPoll(last') => last'.ret = "None"
         /\ ~Enrols(last') => is_terminated'
      ]_vars

C9_Witness ==
    /\ is_terminated
    /\ IsPoll(last) /\ last.ret = "None"
    /\ Len(yielded) >= 1

\* C10 as stated: right after the poll_next that yields the last outstanding
\* result, len() is 0 and is_terminated() holds.
C10_TerminatedAfterLastYield ==
    (Yields(last) /\ in_progress_queue = {}) => (len = 0 /\ is_terminated)

\* C10, amended: right after the poll_next that yields the last outstanding
\* result, len() is 0 and is_empty() holds but is_terminated() does not; it
\* holds once the next poll_next has returned end-of-stream.
C10_EmptyAfterLastYield ==
    /\ []((Yields(last) /\ in_progress_queue = {}) =>
             (len = 0 /\ is_empty /\ ~is_terminated))
    /\ [][(Yields(last) /\ in_progress_queue = {} /\ IsPoll(last')) =>
             (last'.ret = "None" /\ is_terminated')]_vars

C10_Witness ==
    /\ Yields(last)
    /\ in_progress_queue = {}
    /\ Len(yielded) >= 3
    /\ yielded[Len(yielded)].pos = 3

\* C11: poll_next returns end-of-stream exactly when len() is 0 at the call
\* (so a new queue gets end-of-stream, not pending), and the active set is
\* never empty while the series table holds an entry.
C11_EndIffEmpty ==
    /\ [](in_progress_queue = {} => DOMAIN series_queue = {})
    /\ [][IsPoll(last') => (last'.ret = "None" <=> len = 0)]_vars

C11_Witness ==
    /\ IsPoll(last) /\ last.ret = "None"
    /\ enrolments = <<>>
    /\ yielded = <<>>

\* C12: end-of-stream is not absorbing: an enrolment of at least one future,
\* also after poll_next has returned end-of-stream, leaves is_terminated()
\* false and the queue non-empty, and a poll_next on a non-empty queue returns
\* a result or pending, never end-of-stream.
C12_EndNotAbsorbing ==
    [][/\ Enrols(last') => (~is_terminated' /\ len' >= 1 /\ ~is_empty')
       /\ (IsPoll(last') /\ ~is_empty) => last'.ret \in {"Some", "Pending"}
      ]_vars

C12_Witness ==
    /\ ended
    /\ IsPoll(last) /\ last.ret \in {"Some", "Pending"}
    /\ ~is_terminated
    /\ Len(enrolments) >= 2
    /\ \E t \in in_progress_queue : t.data.enr = Len(enrolments)
    /\ Len(yielded) = SumK(enrolments) - 1

\* C13 (under SpecReady): while every enrolment so far is a push of an
\* immediately ready future, the i-th result yielded is that of the i-th
\* push, a poll_next with results outstanding yields the next one in
\* enrolment order and never returns pending, and a poll_next with every
\* result yielded returns end-of-stream.
AllPushes == \A i \in 1..Len(enrolments) : enrolments[i].k = 1

C13_ReadyInEnrolmentOrder ==
    /\ [](AllPushes =>
            \A i \in 1..Len(yielded) : yielded[i] = [enr |-> i, pos |-> 1])
    /\ [][(AllPushes /\ IsPoll(last')) =>
            IF Len(yielded) < Len(enrolments)
            THEN /\ Yields(last')
                 /\ yielded' = Append(yielded, [enr |-> Len(yielded) + 1, pos |-> 1])
            ELSE last'.ret = "None"
         ]_vars

C13_Witness ==
    /\ AllPushes
    /\ Len(enrolments) >= 3
    /\ Len(yielded) = Len(enrolments)
    /\ IsPoll(last) /\ last.ret = "None"

\* C14: after push_series([A, B]) followed by push(C), the results of A, B
\* and C are yielded in one of the orders (C, A, B), (A, C, B), (A, B, C):
\* at every moment what has been yielded of them is a prefix of one of these,
\* so B never comes before A.  Each of the three orders is reached.
S4_A == [enr |-> 1, pos |-> 1]
S4_B == [enr |-> 1, pos |-> 2]
S4_C == [enr |-> 2, pos |-> 1]

S4_Enrolled ==
    /\ Len(enrolments) >= 2
    /\ enrolments[1].k = 2
    /\ enrolments[2].k = 1

S4_Yielded == SelectSeq(yielded, LAMBDA d : d.enr <= 2)

S4_Orders == {<<S4_C, S4_A, S4_B>>, <<S4_A, S4_C, S4_B>>, <<S4_A, S4_B, S4_C>>}

C14_OrderCAB == S4_Enrolled /\ S4_Yielded = <<S4_C, S4_A, S4_B>>
C14_OrderABC == S4_Enrolled /\ S4_Yielded = <<S4_A, S4_B, S4_C>>
C15_NoEmptyTail ==
    /\ [](\A k \in DOMAIN series_queue : Len(series_queue[k]) >= 1)
    /\ [][(last'.op = "push_series" /\ last'.k = 1) =>
             series_queue' = series_queue]_vars

C15_Witness ==
    /\ Yields(last)
    /\ \E t \in in_progress_queue :
          /\ t.data.pos >= 2
          /\ t.data.pos = enrolments[t.data.enr].k
          /\ yielded[Len(yielded)] = [enr |-> t.data.enr, pos |-> t.data.pos - 1]
          /\ t.index \notin DOMAIN series_queue

\* C16: a slot never has two wrappers in the active set, and a series runs one
\* element at a time: a first element enters the active set in its enrolment,
\* any later element only in the poll_next that yields its predecessor, under
\* the predecessor's index; a completion adds nothing to the active set.
C16_SeriesSequential ==
    /\ [](\A t1, t2 \in in_progress_queue : t1.index = t2.index => t1 = t2)
    /\ [][\A t \in in_progress_queue' \ in_progress_queue :
             IF t.data.pos = 1
             THEN Enrols(last')
             ELSE /\ Yields(last')
                  /\ yielded' = Append(yielded,
                                       [enr |-> t.data.enr, pos |-> t.data.pos - 1])
                  /\ \E o \in in_progress_queue \ in_progress_queue' :
                        /\ o.index = t.index
                        /\ o.data = [enr |-> t.data.enr, pos |-> t.data.pos - 1]
         ]_vars

C16_Witness ==
    /\ Yields(last)
    /\ Cardinality(in_progress_queue) >= 2
    /\ \E t \in in_progress_queue :
          /\ t.data.pos = 2
          /\ t.data \notin done
          /\ yielded[Len(yielded)] = [enr |-> t.data.enr, pos |-> 1]
    /\ \E u \in in_progress_queue : u.data.pos = 1 /\ u.data \in done

\* C17: push_series of a one-element Vec and push of that element lead from
\* the same state to the same state (active set, wake queue, series table,
\* counter and flag): every push step is also a push_series([c]) step and
\* every push_series([c]) step is also a push(c) step.
C17_SingletonSeriesIsPush ==
    [][/\ last'.op = "push" => push_series(NewFutures(1))
       /\ (last'.op = "push_series" /\ last'.k = 1) => push(NewFutures(1)[1])
      ]_vars

C17_Witness ==
    /\ last.op = "push_series" /\ last.k = 1
    /\ Cardinality(in_progress_queue) >= 2
    /\ DOMAIN series_queue # {}
    /\ Len(yielded) >= 1

\* C18 (under SpecLive): when active futures keep completing and the consumer
\* keeps polling, from some point on every future ever enrolled (first and
\* tail elements alike) has had its result yielded, len() is 0 and poll_next
\* has returned end-of-stream.
EnrolledFutures ==
    {d \in [enr : 1..Len(enrolments), pos : 1..MaxSeriesLen] :
        d.pos <= enrolments[d.enr].k}

C18_EverythingYielded ==
    <>[](/\ \A d \in EnrolledFutures : InSeq(yielded, d)
         /\ len = 0
         /\ is_terminated)

C18_Witness ==
    /\ is_terminated
    /\ len = 0
    /\ Len(yielded) >= 4
    /\ \A d \in EnrolledFutures : InSeq(yielded, d)
    /\ \E d \in EnrolledFutures : d.pos = 3

\* C19: each enrolled future is yielded at most once, and only enrolled
\* futures that had completed in the active set are yielded: yielded has no
\* repetition, holds only enrolled futures, none of which is still in a
\* series tail or in the active set, and every poll_next that yields takes a
\* ready wrapper out of the active set.
C19_ExactlyOnce ==
    /\ [](/\ \A i, j \in 1..Len(yielded) : yielded[i] = yielded[j] => i = j
          /\ \A i \in 1..Len(yielded) :
                /\ yielded[i] \in EnrolledFutures
                /\ \A k \in DOMAIN series_queue : ~InSeq(series_queue[k], yielded[i])
                /\ \A t \in in_progress_queue : t.data # yielded[i])
    /\ [][Yields(last') =>
             \E t \in in_progress_queue :
                /\ t.data \in done
                /\ t \notin in_progress_queue'
                /\ yielded' = Append(yielded, t.data)]_vars

C19_Witness ==
    /\ Yields(last)
    /\ yielded[Len(yielded)].pos >= 2
    /\ \E t \in in_progress_queue :
          /\ t.data.enr = yielded[Len(yielded)].enr
          /\ t.data.pos = yielded[Len(yielded)].pos + 1

\* C20: poll_next never changes the counter; a poll_next that returns pending
\* or end-of-stream changes neither the series table nor the active set, so a
\* tail element is promoted only by a poll_next that returns a result.
C20_PollFrame ==
    [][IsPoll(last') =>
         /\ next_index' = next_index
         /\ ~Yields(last') => UNCHANGED <<series_queue, in_progress_queue>>
         /\ (in_progress_queue' \ in_progress_queue # {}) => Yields(last')
      ]_vars

C20_Witness ==
    /\ IsPoll(last) /\ last.ret = "Pending"
    /\ DOMAIN series_queue # {}
    /\ Len(yielded) >= 1
    /\ next_index >= 2

====
